---- MODULE Spec2Model ----
(***************************************************************************)
(* Model of the image formats support detector (AVIF, WebP, JPEG XL).      *)
(*                                                                         *)
(* A detection run is one call of detectImageFormats.  The platform        *)
(* (browser) supplies a clock (Date.now), timers (setTimeout) and image    *)
(* decoding that raises load or error.  The event loop runs one handler    *)
(* at a time, so each handler is one atomic action.                        *)
(***************************************************************************)
EXTENDS Integers, Sequences, FiniteSets, TLC

\* ------------------------------------------------------------------ bounds
MaxDelay == 1      \* largest config.delay drawn
MaxNow == 3        \* the clock stops ticking at this reading
MaxLag == 1        \* clock ticks that may pass inside one detectImageFormats call
NumRuns == 2       \* detection runs (the one-run specifications leave the second idle)

RunIds == 1..NumRuns

\* The time that has passed since line 112 when each of the three blocks of
\* detectImageFormats runs: the clock may advance inside the call.
LagSeqs == {l \in [1..3 -> 0..MaxLag] : l[1] <= l[2] /\ l[2] <= l[3]}

\* The three formats, in the order of the three blocks of detectImageFormats.
Formats == {"avif", "webp", "jxl"}

FlagFields == {"avif", "webp", "jxl"}
ConfigFields == FlagFields \cup {"delay"}

\* ImageFormatConfig: every field optional.  An omitted (undefined) field is
\* a field missing from the record's domain.
ImageFormatConfig ==
    { [k \in S |-> c[k]] :
        c \in [avif : BOOLEAN, webp : BOOLEAN, jxl : BOOLEAN, delay : 0..MaxDelay],
        S \in SUBSET ConfigFields }

\* The optional second argument of detectImageFormats: <<>> when the call
\* passes no config, <<c>> when it passes the config object c.
ConfigArgs == {<<>>} \cup { <<c>> : c \in ImageFormatConfig }

\* The literal of lines 69 and 110.
AllEnabledZeroDelay == [avif |-> TRUE, webp |-> TRUE, jxl |-> TRUE, delay |-> 0]

\* result fields are boolean | null
Null == "null"
True == "true"
False == "false"

\* ImageFormatResult as created at lines 114-119
NewResult == [avif |-> Null, webp |-> Null, jxl |-> Null, time |-> 0]

\* ------------------------------------------------------- pure computations

\* Lines 103-110: the effective config.
FullConfig_delay1(args) ==
    IF Len(args) > 0
    THEN [avif  |-> ("avif" \notin DOMAIN args[1]) \/ args[1].avif,
          webp  |-> ("webp" \notin DOMAIN args[1]) \/ args[1].webp,
          jxl   |-> ("jxl" \notin DOMAIN args[1]) \/ args[1].jxl,
          delay |-> IF "delay" \in DOMAIN args[1] THEN args[1].delay ELSE 0]
    ELSE [avif |-> TRUE, webp |-> TRUE, jxl |-> TRUE, delay |-> 1]

FullConfig_and(args) ==
    IF Len(args) > 0
    THEN [avif  |-> ("avif" \notin DOMAIN args[1]) \/ args[1].avif,
          webp  |-> ("webp" \in DOMAIN args[1]) /\ args[1].webp,
          jxl   |-> ("jxl" \notin DOMAIN args[1]) \/ args[1].jxl,
          delay |-> IF "delay" \in DOMAIN args[1] THEN args[1].delay ELSE 0]
    ELSE [avif |-> TRUE, webp |-> TRUE, jxl |-> TRUE, delay |-> 0]

FullConfig(args) ==
    IF Len(args) > 0
    THEN [avif  |-> ("avif" \notin DOMAIN args[1]) \/ args[1].avif,
          webp  |-> ("webp" \notin DOMAIN args[1]) \/ args[1].webp,
          jxl   |-> ("jxl" \notin DOMAIN args[1]) \/ args[1].jxl,
          delay |-> IF "delay" \in DOMAIN args[1] THEN args[1].delay ELSE 0]
    ELSE [avif |-> TRUE, webp |-> TRUE, jxl |-> TRUE, delay |-> 0]

\* Lines 58-68: the callback of detectImageFormatsDefault, as the set of
\* class names it adds to _document.body.classList.
defaultCallback_swapped(result) ==
    (IF result.avif # Null
     THEN {IF result.avif = True THEN "has-avif" ELSE "no-avif"} ELSE {})
    \cup
    (IF result.webp # Null
     THEN {IF result.webp = True THEN "has-webp" ELSE "no-webp"} ELSE {})
    \cup
    (IF result.jxl # Null
     THEN {IF result.jxl = True THEN "no-jxl" ELSE "has-jxl"} ELSE {})

defaultCallback(result) ==
    (IF result.avif # Null
     THEN {IF result.avif = True THEN "has-avif" ELSE "no-avif"} ELSE {})
    \cup
    (IF result.webp # Null
     THEN {IF result.webp = True THEN "has-webp" ELSE "no-webp"} ELSE {})
    \cup
    (IF result.jxl # Null
     THEN {IF result.jxl = True THEN "has-jxl" ELSE "no-jxl"} ELSE {})

\* --------------------------------------------------------- one run's state
\*   called      the run's detectImageFormats call has been made
\*   kind        "default": called through detectImageFormatsDefault
\*   args        the config argument of the call
\*   fullConfig, start, result    the call's locals (closure of the handlers)
\*   timer[f]    setTimeout of format f: "none", "pending", "fired"
\*   left[f]     milliseconds until a pending timer is due
\*   image[f]    the Image of format f: "none", "decoding", "load", "error"
\*   cbLog       the invocations of callback so far: the result as it was
\*               passed, the images' states at that moment, whether the
\*               invocation was made from inside the detectImageFormats
\*               call, the clock reading, and which callbackIfEnd
\*               invocation of the run made it
\*   checks      number of callbackIfEnd invocations
\*   seen        the values of Date.now() - start read by them (line 189)
\*   lastDiff    the value read by the latest of them
\*   classes     class names added to _document.body by this run
IdleRun ==
    [called |-> FALSE, kind |-> "user", args |-> <<>>,
     fullConfig |-> AllEnabledZeroDelay, start |-> 0, result |-> NewResult,
     timer |-> [f \in Formats |-> "none"], left |-> [f \in Formats |-> 0],
     image |-> [f \in Formats |-> "none"],
     cbLog |-> <<>>, checks |-> 0, seen |-> {}, lastDiff |-> 0, classes |-> {}]

\* Invoking callback(result), line 199.
callback(run, clock, sync) ==
    [run EXCEPT
        !.cbLog = Append(@, [result |-> run.result, images |-> run.image,
                             sync |-> sync, at |-> clock, check |-> run.checks]),
        !.classes = IF run.kind = "default"
                    THEN @ \cup defaultCallback(run.result) ELSE @]

\* Lines 183-204.  clock is the reading of Date.now() at line 189; sync tells
\* whether the invocation comes from the detectImageFormats call itself.
callbackIfEnd_always(run, clock, sync) ==
    LET diff == clock - run.start
        r1 == [run EXCEPT !.result.time = IF diff > @ THEN diff ELSE @,
                          !.checks = @ + 1,
                          !.seen = @ \cup {diff}, !.lastDiff = diff]
    IN callback(r1, clock, sync)

callbackIfEnd_noJxl(run, clock, sync) ==
    LET diff == clock - run.start
        r1 == [run EXCEPT !.result.time = IF diff > @ THEN diff ELSE @,
                          !.checks = @ + 1,
                          !.seen = @ \cup {diff}, !.lastDiff = diff]
    IN IF /\ (~r1.fullConfig.avif \/ r1.result.avif # Null)
          /\ (~r1.fullConfig.webp \/ r1.result.webp # Null)
       THEN callback(r1, clock, sync)
       ELSE r1

callbackIfEnd_noTime(run, clock, sync) ==
    LET diff == clock - run.start
        r1 == [run EXCEPT !.checks = @ + 1,
                          !.seen = @ \cup {diff}, !.lastDiff = diff]
    IN IF /\ (~r1.fullConfig.avif \/ r1.result.avif # Null)
          /\ (~r1.fullConfig.webp \/ r1.result.webp # Null)
          /\ (~r1.fullConfig.jxl \/ r1.result.jxl # Null)
       THEN callback(r1, clock, sync)
       ELSE r1

callbackIfEnd_last(run, clock, sync) ==
    LET diff == clock - run.start
        r1 == [run EXCEPT !.result.time = IF diff > 0 THEN diff ELSE @,
                          !.checks = @ + 1,
                          !.seen = @ \cup {diff}, !.lastDiff = diff]
    IN IF /\ (~r1.fullConfig.avif \/ r1.result.avif # Null)
          /\ (~r1.fullConfig.webp \/ r1.result.webp # Null)
          /\ (~r1.fullConfig.jxl \/ r1.result.jxl # Null)
       THEN callback(r1, clock, sync)
       ELSE r1

callbackIfEnd(run, clock, sync) ==
    LET diff == clock - run.start
        r1 == [run EXCEPT !.result.time = IF diff > @ THEN diff ELSE @,
                          !.checks = @ + 1,
                          !.seen = @ \cup {diff}, !.lastDiff = diff]
    IN IF /\ (~r1.fullConfig.avif \/ r1.result.avif # Null)
          /\ (~r1.fullConfig.webp \/ r1.result.webp # Null)
          /\ (~r1.fullConfig.jxl \/ r1.result.jxl # Null)
       THEN callback(r1, clock, sync)
       ELSE r1

\* One of the three blocks of lines 121-180: schedule the probe of an
\* enabled format, check for the end at once for a disabled one.
probeBlock_ignoreFlag(run, f, clock) ==
    [run EXCEPT !.timer[f] = "pending", !.left[f] = run.fullConfig.delay]

probeBlock(run, f, clock) ==
    IF run.fullConfig[f]
    THEN [run EXCEPT !.timer[f] = "pending", !.left[f] = run.fullConfig.delay]
    ELSE callbackIfEnd(run, clock, TRUE)

\* The passing of d milliseconds, as a run's pending timers see it.
elapse(run, d) ==
    [run EXCEPT !.left = [f \in Formats |-> IF run.left[f] > d THEN run.left[f] - d ELSE 0]]

\* Lines 99-181: the whole synchronous call.  clock is the reading of
\* Date.now() at line 112; lags[i] is the time that has passed since then
\* when the i-th block runs.
detectImageFormats(kind, args, clock, lags) ==
    LET r0 == [IdleRun EXCEPT !.called = TRUE, !.kind = kind, !.args = args,
                              !.fullConfig = FullConfig(args),
                              !.start = clock, !.result = NewResult]
        r1 == probeBlock(r0, "avif", clock + lags[1])
        r2 == probeBlock(elapse(r1, lags[2] - lags[1]), "webp", clock + lags[2])
    IN probeBlock(elapse(r2, lags[3] - lags[2]), "jxl", clock + lags[3])

\* Lines 122-139 (145-157, 163-177): the timer callback creates the Image,
\* sets its src and attaches the handlers; the platform starts decoding.
timerFired_interval(run, f) ==
    [run EXCEPT !.image[f] = "decoding"]

timerFired(run, f) ==
    [run EXCEPT !.timer[f] = "fired", !.image[f] = "decoding"]

\* Lines 131-138 (149-156, 169-176): onload / onerror.
imageSettled_noCheck(run, f, ok, clock) ==
    [run EXCEPT !.image[f] = IF ok THEN "load" ELSE "error",
                !.result[f] = IF ok THEN True ELSE False]

imageSettled_swapped(run, f, ok, clock) ==
    callbackIfEnd([run EXCEPT !.image[f] = IF ok THEN "load" ELSE "error",
                              !.result[f] = IF ok THEN False ELSE True],
                  clock, FALSE)

imageSettled(run, f, ok, clock) ==
    callbackIfEnd([run EXCEPT !.image[f] = IF ok THEN "load" ELSE "error",
                              !.result[f] = IF ok THEN True ELSE False],
                  clock, FALSE)

\* ------------------------------------------------------------------- state
VARIABLES
    now,     \* the reading of Date.now()
    runs     \* RunIds -> the state of each run

vars == <<now, runs>>

Init ==
    /\ now = 0
    /\ runs = [r \in RunIds |-> IdleRun]

\* A caller calls detectImageFormats(callback, config?).
\* (The guard keeps every timer of the call due within the clock's range.)
Call(r, args, lags) ==
    /\ ~runs[r].called
    /\ now + lags[3] + FullConfig(args).delay <= MaxNow
    /\ now' = now + lags[3]
    /\ runs' = [q \in RunIds |->
                  IF q = r THEN detectImageFormats("user", args, now, lags)
                  ELSE elapse(runs[q], lags[3])]

\* A caller calls detectImageFormatsDefault(document), lines 56-71.
detectImageFormatsDefault(r, lags) ==
    /\ ~runs[r].called
    /\ now + lags[3] <= MaxNow
    /\ now' = now + lags[3]
    /\ runs' = [q \in RunIds |->
                  IF q = r
                  THEN detectImageFormats("default", <<AllEnabledZeroDelay>>, now, lags)
                  ELSE elapse(runs[q], lags[3])]

\* The platform runs a due timer's callback.
TimerFire(r, f) ==
    /\ runs[r].timer[f] = "pending"
    /\ runs[r].left[f] = 0
    /\ runs' = [runs EXCEPT ![r] = timerFired(@, f)]
    /\ UNCHANGED now

\* The platform raises load on a decoding image.
OnLoad_shared(r, f) ==
    /\ runs[r].image[f] = "decoding"
    /\ runs' = [q \in RunIds |->
                  IF runs[q].image[f] = "decoding"
                  THEN imageSettled(runs[q], f, TRUE, now) ELSE runs[q]]
    /\ UNCHANGED now

OnLoad(r, f) ==
    /\ runs[r].image[f] = "decoding"
    /\ runs' = [runs EXCEPT ![r] = imageSettled(@, f, TRUE, now)]
    /\ UNCHANGED now

\* The platform raises error on a decoding image.
OnError(r, f) ==
    /\ runs[r].image[f] = "decoding"
    /\ runs' = [runs EXCEPT ![r] = imageSettled(@, f, FALSE, now)]
    /\ UNCHANGED now

\* A millisecond passes.
Tick ==
    /\ now < MaxNow
    /\ now' = now + 1
    /\ runs' = [q \in RunIds |-> elapse(runs[q], 1)]

\* One detection run on the page.
Next ==
    \/ \E args \in ConfigArgs, lags \in LagSeqs : Call(1, args, lags)
    \/ \E lags \in LagSeqs : detectImageFormatsDefault(1, lags)
    \/ \E f \in Formats : TimerFire(1, f)
    \/ \E f \in Formats : OnLoad(1, f)
    \/ \E f \in Formats : OnError(1, f)
    \/ Tick

Spec == Init /\ [][Next]_vars

\* The platform's guarantees: time passes, a due timer's callback is run,
\* and a decoding image eventually raises load or error.
Fairness ==
    /\ WF_vars(Tick)
    /\ \A f \in Formats : WF_vars(TimerFire(1, f))
    /\ \A f \in Formats : WF_vars(OnLoad(1, f) \/ OnError(1, f))

SpecFair == Init /\ [][Next]_vars /\ Fairness

\* Date.now() is the wall clock: the platform may set it back.  Timers run
\* on elapsed time and are not affected.
ClockBack ==
    /\ now > 0
    /\ now' = now - 1
    /\ UNCHANGED runs

\* Calls that give every field of the config.
FullArgs ==
    { <<c>> : c \in [avif : BOOLEAN, webp : BOOLEAN, jxl : BOOLEAN, delay : 0..MaxDelay] }

NextSkew ==
    \/ \E args \in FullArgs, lags \in LagSeqs : Call(1, args, lags)
    \/ \E f \in Formats : TimerFire(1, f)
    \/ \E f \in Formats : OnLoad(1, f)
    \/ \E f \in Formats : OnError(1, f)
    \/ Tick
    \/ ClockBack

SpecSkew == Init /\ [][NextSkew]_vars

\* Two calls on one page, as in the README's usage (lines 30-39): run 1
\* through detectImageFormatsDefault, run 2 through detectImageFormats,
\* made at any two moments in either order, their timer and load/error
\* events interleaved freely.
TwoRunArgs ==
    { << [jxl |-> FALSE, delay |-> 1] >>,
      << [avif |-> FALSE, webp |-> FALSE, jxl |-> FALSE] >> }

NextTwo ==
    \/ \E args \in TwoRunArgs, lags \in LagSeqs : Call(2, args, lags)
    \/ \E lags \in LagSeqs : detectImageFormatsDefault(1, lags)
    \/ \E r \in {1, 2}, f \in Formats : TimerFire(r, f)
    \/ \E r \in {1, 2}, f \in Formats : OnLoad(r, f)
    \/ \E r \in {1, 2}, f \in Formats : OnError(r, f)
    \/ Tick

SpecTwo == Init /\ [][NextTwo]_vars

\* ------------------------------------------------------- shared vocabulary
SetMax(S) == CHOOSE x \in S : \A y \in S : y <= x
Enabled(run) == {f \in Formats : run.fullConfig[f]}
Settled(run) == {f \in Formats : run.image[f] \in {"load", "error"}}
AllSettled(run) == Enabled(run) \subseteq Settled(run)
Invocations(run) == Len(run.cbLog)

\* ------------------------------------------------- the paired specification
\* Two calls made at the same instant, run 1 with no config and run 2 with
\* {avif: true, webp: true, jxl: true, delay: 0}, and a platform that
\* delivers every event (timer firing, load, error, clock reading) to both.
PairCall(lags) ==
    /\ \A r \in {1, 2} : ~runs[r].called
    /\ now + lags[3] <= MaxNow
    /\ now' = now + lags[3]
    /\ runs' = [q \in RunIds |->
                  IF q = 1 THEN detectImageFormats("user", <<>>, now, lags)
                  ELSE IF q = 2
                  THEN detectImageFormats("user", <<AllEnabledZeroDelay>>, now, lags)
                  ELSE elapse(runs[q], lags[3])]

PairTimerFire(f) ==
    /\ \E r \in {1, 2} : runs[r].timer[f] = "pending" /\ runs[r].left[f] = 0
    /\ runs' = [q \in RunIds |->
                  IF q \in {1, 2} /\ runs[q].timer[f] = "pending" /\ runs[q].left[f] = 0
                  THEN timerFired(runs[q], f) ELSE runs[q]]
    /\ UNCHANGED now

PairOnLoad(f) ==
    /\ \E r \in {1, 2} : runs[r].image[f] = "decoding"
    /\ runs' = [q \in RunIds |->
                  IF q \in {1, 2} /\ runs[q].image[f] = "decoding"
                  THEN imageSettled(runs[q], f, TRUE, now) ELSE runs[q]]
    /\ UNCHANGED now

PairOnError(f) ==
    /\ \E r \in {1, 2} : runs[r].image[f] = "decoding"
    /\ runs' = [q \in RunIds |->
                  IF q \in {1, 2} /\ runs[q].image[f] = "decoding"
                  THEN imageSettled(runs[q], f, FALSE, now) ELSE runs[q]]
    /\ UNCHANGED now

NextPair ==
    \/ \E lags \in LagSeqs : PairCall(lags)
    \/ \E f \in Formats : PairTimerFire(f)
    \/ \E f \in Formats : PairOnLoad(f)
    \/ \E f \in Formats : PairOnError(f)
    \/ Tick

SpecPair == Init /\ [][NextPair]_vars

\* ------------------------------------------------------------------ claims

\* C1: with at least one format enabled the callback is invoked exactly
\* once, in the step in which the last enabled probe settles: no invocation
\* while an enabled probe is unsettled, exactly one from then on, whatever
\* the order of the load/error events.
C1_CallbackExactlyOnce ==
    \A r \in RunIds :
        (runs[r].called /\ Enabled(runs[r]) # {}) =>
            Invocations(runs[r]) = IF AllSettled(runs[r]) THEN 1 ELSE 0

C1_Witness ==
    \E r \in RunIds :
        /\ runs[r].called
        /\ Enabled(runs[r]) = Formats
        /\ AllSettled(runs[r])
        /\ Invocations(runs[r]) = 1
        /\ runs[r].image["avif"] = "error"
        /\ runs[r].image["jxl"] = "load"

\* C2: with avif, webp and jxl all false the callback is invoked exactly
\* once, with avif, webp and jxl all null.
C2_AllDisabledExactlyOnce ==
    \A r \in RunIds :
        (runs[r].called /\ Enabled(runs[r]) = {}) =>
            /\ Invocations(runs[r]) = 1
            /\ \A f \in Formats : runs[r].cbLog[1].result[f] = Null

\* C3: whenever the callback is invoked, every enabled format's result
\* field is true or false, and every enabled probe has settled.
C3_EnabledDefiniteAtCallback ==
    \A r \in RunIds :
        \A i \in 1..Invocations(runs[r]) :
            \A f \in Enabled(runs[r]) :
                /\ runs[r].cbLog[i].result[f] \in {True, False}
                /\ runs[r].cbLog[i].images[f] \in {"load", "error"}

C3_Witness ==
    \E r \in RunIds :
        /\ Invocations(runs[r]) >= 1
        /\ Cardinality(Enabled(runs[r])) >= 2
        /\ \E f \in Enabled(runs[r]) : runs[r].cbLog[1].result[f] = False

\* C4: a disabled format's result field is null in every state of the run
\* and in the result passed to the callback, and neither its timer nor its
\* image decode is ever started.
C4_DisabledStaysNull ==
    \A r \in RunIds :
        runs[r].called =>
            \A f \in Formats \ Enabled(runs[r]) :
                /\ runs[r].result[f] = Null
                /\ runs[r].timer[f] = "none"
                /\ runs[r].image[f] = "none"
                /\ \A i \in 1..Invocations(runs[r]) :
                       runs[r].cbLog[i].result[f] = Null

C4_Witness ==
    \E r \in RunIds :
        /\ runs[r].called
        /\ Enabled(runs[r]) = {"avif", "jxl"}
        /\ Invocations(runs[r]) = 1
        /\ runs[r].cbLog[1].result.webp = Null

\* C5: the time passed to the callback is non-negative, and at least the
\* configured delay when a format is enabled (the clock of this
\* specification is monotone and a timer fires only when it is due).
C5_TimeBounds ==
    \A r \in RunIds :
        \A i \in 1..Invocations(runs[r]) :
            /\ runs[r].cbLog[i].result.time >= 0
            /\ Enabled(runs[r]) # {} =>
                   runs[r].cbLog[i].result.time >= runs[r].fullConfig.delay

C5_Witness ==
    \E r \in RunIds :
        /\ Invocations(runs[r]) >= 1
        /\ Enabled(runs[r]) # {}
        /\ runs[r].fullConfig.delay >= 1
        /\ runs[r].cbLog[1].result.time = runs[r].fullConfig.delay

\* C6: a call with no config behaves as a call with
\* {avif: true, webp: true, jxl: true, delay: 0}: under the same platform
\* events the two runs have the same effective config, schedule the same
\* probes and invoke the callback at the same points with equal results.
C6_NoConfigEquivalent ==
    (runs[1].called \/ runs[2].called) =>
        /\ runs[1].args = <<>>
        /\ runs[2].args = <<AllEnabledZeroDelay>>
        /\ runs[1].called = runs[2].called
        /\ runs[1].fullConfig = runs[2].fullConfig
        /\ runs[1].start = runs[2].start
        /\ runs[1].timer = runs[2].timer
        /\ runs[1].left = runs[2].left
        /\ runs[1].image = runs[2].image
        /\ runs[1].result = runs[2].result
        /\ runs[1].cbLog = runs[2].cbLog
        /\ runs[1].checks = runs[2].checks

C6_Witness ==
    /\ runs[1].called
    /\ runs[1].args = <<>>
    /\ runs[2].args = <<AllEnabledZeroDelay>>
    /\ Invocations(runs[1]) = 1
    /\ Invocations(runs[2]) = 1
    /\ runs[1].result.time >= 1

\* C7: with a config object, every field is defaulted on its own: an
\* omitted flag is enabled, a given flag is used as given, an omitted delay
\* is 0.
C7_FieldDefaults ==
    \A r \in RunIds :
        (runs[r].called /\ Len(runs[r].args) = 1) =>
            /\ \A k \in FlagFields :
                   runs[r].fullConfig[k] =
                       IF k \in DOMAIN runs[r].args[1] THEN runs[r].args[1][k] ELSE TRUE
            /\ runs[r].fullConfig.delay =
                   IF "delay" \in DOMAIN runs[r].args[1] THEN runs[r].args[1].delay ELSE 0

C7_Witness ==
    \E r \in RunIds :
        /\ runs[r].called
        /\ runs[r].args = << [webp |-> FALSE, jxl |-> TRUE] >>
        /\ runs[r].fullConfig = [avif |-> TRUE, webp |-> FALSE, jxl |-> TRUE, delay |-> 0]

\* C8: detectImageFormatsDefault requests the three formats with delay 0;
\* no class is added before the callback; on completion the body has, per
\* format, has-<format> iff the result is true and no-<format> iff it is
\* false, never both; three successful decodes give exactly has-avif,
\* has-webp and has-jxl.
C8_DefaultClasses ==
    \A r \in RunIds :
        (runs[r].called /\ runs[r].kind = "default") =>
            /\ runs[r].fullConfig = AllEnabledZeroDelay
            /\ Invocations(runs[r]) = 0 => runs[r].classes = {}
            /\ Invocations(runs[r]) >= 1 =>
                   /\ \A f \in Formats :
                          /\ ("has-" \o f) \in runs[r].classes <=> runs[r].result[f] = True
                          /\ ("no-" \o f) \in runs[r].classes <=> runs[r].result[f] = False
                          /\ ~(("has-" \o f) \in runs[r].classes /\ ("no-" \o f) \in runs[r].classes)
                   /\ Cardinality(runs[r].classes) = 3
                   /\ (\A f \in Formats : runs[r].image[f] = "load") =>
                          runs[r].classes = {"has-avif", "has-webp", "has-jxl"}

C8_Witness ==
    \E r \in RunIds :
        /\ runs[r].kind = "default"
        /\ Invocations(runs[r]) = 1
        /\ \A f \in Formats : runs[r].image[f] = "load"
        /\ runs[r].classes = {"has-avif", "has-webp", "has-jxl"}

\* C9: with at least one format enabled, the callback is never invoked
\* from inside the detectImageFormats call, only from a load/error event.
C9_NoSyncCallbackWhenEnabled ==
    \A r \in RunIds :
        (runs[r].called /\ Enabled(runs[r]) # {}) =>
            \A i \in 1..Invocations(runs[r]) : ~runs[r].cbLog[i].sync

C9_Witness ==
    \E r \in RunIds :
        /\ runs[r].called
        /\ Cardinality(Enabled(runs[r])) = 1
        /\ runs[r].checks = 3
        /\ Invocations(runs[r]) = 1
        /\ ~runs[r].cbLog[1].sync

\* C10 as stated: the callback is never invoked from inside the
\* detectImageFormats call, whatever the config.
C10_NeverSync ==
    \A r \in RunIds :
        \A i \in 1..Invocations(runs[r]) : ~runs[r].cbLog[i].sync

\* C10 amended: an invocation of the callback is made from inside the
\* detectImageFormats call exactly when all three formats are disabled;
\* with a format enabled every invocation comes from a load/error event.
C10_SyncIffAllDisabled ==
    \A r \in RunIds :
        /\ \A i \in 1..Invocations(runs[r]) :
               runs[r].cbLog[i].sync <=> Enabled(runs[r]) = {}
        /\ (runs[r].called /\ Enabled(runs[r]) = {}) => Invocations(runs[r]) >= 1

C10_Witness ==
    \E r \in RunIds :
        /\ runs[r].called
        /\ Enabled(runs[r]) = {}
        /\ Invocations(runs[r]) >= 1
        /\ runs[r].cbLog[1].sync

\* C11: under the platform's fairness the callback is eventually invoked
\* for every call; and as long as the decode of an enabled format has not
\* raised load or error the callback has not been invoked, so a decode
\* that never settles means a callback that is never invoked.
C11_EventuallyOnlyWhenSettled ==
    /\ \A r \in {1} : runs[r].called ~> (Invocations(runs[r]) >= 1)
    /\ [](\A r \in RunIds :
            (runs[r].called /\ ~AllSettled(runs[r])) => Invocations(runs[r]) = 0)

C11_Witness ==
    \E r \in RunIds :
        /\ runs[r].called
        /\ runs[r].fullConfig.delay >= 1
        /\ Cardinality(Enabled(runs[r])) = 2
        /\ AllSettled(runs[r])
        /\ Invocations(runs[r]) = 1
        /\ runs[r].cbLog[1].at > runs[r].start

\* C12: once a callbackIfEnd invocation has invoked the callback, no later
\* callbackIfEnd invocation of the same run invokes it again: all the
\* callback invocations of a run come from one and the same check.
C12_NoCallbackFromLaterCheck ==
    \A r \in RunIds :
        \A i, j \in 1..Invocations(runs[r]) :
            runs[r].cbLog[i].check = runs[r].cbLog[j].check

\* C13: after the callback has been invoked, the run's result object stays
\* equal to what it was when it was passed to the callback.
C13_ResultFrozenAfterCallback ==
    \A r \in RunIds :
        \A i \in 1..Invocations(runs[r]) :
            runs[r].cbLog[i].result = runs[r].result

\* C14: within a run each of avif, webp, jxl starts as null and changes at
\* most once, from null to true or false and only if its format is
\* enabled; a field that is true or false never changes again.
C14_FieldsChangeOnce ==
    [][\A r \in RunIds : \A f \in Formats :
          /\ (~runs[r].called /\ runs'[r].called) => runs'[r].result[f] = Null
          /\ runs[r].called =>
                 \/ runs'[r].result[f] = runs[r].result[f]
                 \/ /\ runs[r].result[f] = Null
                    /\ runs'[r].result[f] \in {True, False}
                    /\ f \in Enabled(runs[r])]_vars

C14_Witness ==
    \E r \in RunIds :
        /\ runs[r].called
        /\ runs[r].result.avif = True
        /\ runs[r].result.webp = Null
        /\ runs[r].result.jxl = False
        /\ "webp" \notin Enabled(runs[r])

\* C15: within a run the result's time never decreases, and after every
\* check it is the largest value of now - start read by the checks so far,
\* or 0 if none was positive, also when the clock was set back between
\* checks.
C15_TimeIsMaxElapsed ==
    [][\A r \in RunIds :
          runs'[r].called =>
              /\ runs[r].called => runs'[r].result.time >= runs[r].result.time
              /\ runs'[r].result.time = SetMax(runs'[r].seen \cup {0})]_vars

C15_Witness ==
    \E r \in RunIds :
        /\ runs[r].called
        /\ runs[r].checks >= 2
        /\ runs[r].lastDiff >= 1
        /\ runs[r].lastDiff < runs[r].result.time
        /\ \E d \in runs[r].seen : d < 0

\* C16: every format causes exactly one callbackIfEnd invocation: a
\* disabled format's inside the detectImageFormats call, an enabled
\* format's when its decode raises load or error; so a run whose enabled
\* probes have all settled has made exactly three checks, and no run makes
\* more.
C16_OneCheckPerFormat ==
    \A r \in RunIds :
        runs[r].called =>
            /\ runs[r].checks =
                   Cardinality(Formats \ Enabled(runs[r])) + Cardinality(Settled(runs[r]))
            /\ runs[r].checks <= 3
            /\ AllSettled(runs[r]) => runs[r].checks = 3
            /\ \A i \in 1..Invocations(runs[r]) :
                   runs[r].cbLog[i].sync <=>
                       runs[r].cbLog[i].check <= Cardinality(Formats \ Enabled(runs[r]))

C16_Witness ==
    \E r \in RunIds :
        /\ runs[r].called
        /\ Cardinality(Enabled(runs[r])) = 2
        /\ AllSettled(runs[r])
        /\ runs[r].checks = 3
        /\ runs[r].fullConfig.delay = 1

\* C17: an enabled format's field is true iff its probe raised load and
\* false iff it raised error; an error is final (the probe is not started
\* again), changes no other format's field, and does not keep the callback
\* from being invoked once all enabled probes have settled.
C17_FailureIsFalse ==
    [][\A r \in RunIds : \A f \in Formats :
          /\ runs'[r].result[f] = True <=> runs'[r].image[f] = "load"
          /\ runs'[r].result[f] = False <=> runs'[r].image[f] = "error"
          /\ runs[r].image[f] = "error" =>
                 /\ runs'[r].image[f] = "error"
                 /\ runs'[r].timer[f] = "fired"
          /\ (runs[r].image[f] = "decoding" /\ runs'[r].image[f] = "error") =>
                 /\ \A g \in Formats \ {f} : runs'[r].result[g] = runs[r].result[g]
                 /\ AllSettled(runs'[r]) => Invocations(runs'[r]) >= 1]_vars

C17_Witness ==
    \E r \in RunIds :
        /\ runs[r].called
        /\ Enabled(runs[r]) = Formats
        /\ \A f \in Formats : runs[r].image[f] = "error"
        /\ \A f \in Formats : runs[r].result[f] = False
        /\ Invocations(runs[r]) = 1

\* C18: two runs are independent under every interleaving: a call or an
\* event of one run changes nothing of the other run's config, start,
\* result, probes or callback invocations, and every callback receives its
\* own run's result: the verdicts of its own probes and the time elapsed
\* since its own start.
C18_RunsIndependent ==
    [][\A r, q \in RunIds :
          /\ ( /\ r # q
               /\ \/ runs'[r].called # runs[r].called
                  \/ runs'[r].timer # runs[r].timer
                  \/ runs'[r].image # runs[r].image )
             => /\ runs'[q].called = runs[q].called
                /\ runs'[q].args = runs[q].args
                /\ runs'[q].fullConfig = runs[q].fullConfig
                /\ runs'[q].start = runs[q].start
                /\ runs'[q].result = runs[q].result
                /\ runs'[q].timer = runs[q].timer
                /\ runs'[q].image = runs[q].image
                /\ runs'[q].checks = runs[q].checks
                /\ runs'[q].cbLog = runs[q].cbLog
                /\ runs'[q].classes = runs[q].classes
          /\ \A i \in 1..Invocations(runs'[q]) :
                 /\ \A f \in Formats :
                        /\ runs'[q].cbLog[i].result[f] = True
                               <=> runs'[q].cbLog[i].images[f] = "load"
                        /\ runs'[q].cbLog[i].result[f] = False
                               <=> runs'[q].cbLog[i].images[f] = "error"
                 /\ runs'[q].cbLog[i].result.time = runs'[q].cbLog[i].at - runs'[q].start
                 /\ Enabled(runs'[q]) # {} => runs'[q].cbLog[i].result = runs'[q].result]_vars

C18_Witness ==
    /\ runs[1].called /\ runs[2].called
    /\ runs[1].start # runs[2].start
    /\ runs[1].fullConfig # runs[2].fullConfig
    /\ Invocations(runs[1]) = 1 /\ Invocations(runs[2]) = 1
    /\ runs[1].cbLog[1].result.avif = True
    /\ runs[2].cbLog[1].result.avif = False
    /\ runs[1].cbLog[1].at > runs[2].cbLog[1].at
    /\ runs[1].start < runs[2].start

====
